---------------------------- MODULE Spec2Model ----------------------------
(***************************************************************************)
(* Model of the prime-factorization application (src/src/App.tsx):         *)
(* the pure functions primeFactorize and groupFactors, the factorization   *)
(* string built by handleFactorize, and the component's signals and        *)
(* history store with every handler that writes them.                      *)
(*                                                                         *)
(* Representation of values                                                *)
(*   - A JavaScript number that is an integer is a pair of limbs           *)
(*     [hi, lo] standing for hi * LIMB + lo with 0 <= lo < LIMB, so that    *)
(*     values around Number.MAX_SAFE_INTEGER = 2^53 - 1 can be written     *)
(*     and compared although TLC's integers have 32 bits.  NaN is the      *)
(*     record [nan |-> TRUE].                                              *)
(*   - The trial division itself runs on single integers (ToInt): every    *)
(*     number the specifications let through the two guards of             *)
(*     primeFactorize is below LIMB.  Elements of factor lists, primes     *)
(*     and exponents are therefore plain integers.                         *)
(*   - A string is a sequence of one-character strings, so that parseInt,  *)
(*     Number.prototype.toString and Array.prototype.join are computed     *)
(*     character by character.                                             *)
(*   - null is the record NULL.                                            *)
(***************************************************************************)
EXTENDS Integers, Sequences, FiniteSets

VARIABLES
    inputValue,          \* signal inputValue: string
    currentNumber,       \* signal currentNumber: number | null
    factors,             \* signal factors: number[]
    groupedFactors,      \* signal groupedFactors: {prime, exponent}[]
    error,               \* signal error: string | null
    calculationHistory,  \* store calculationHistory: {number, factorization}[]
    darkMode,            \* signal darkMode: boolean
    lastOp               \* <<name of the last handler or call, its index argument or -1>>

vars == <<inputValue, currentNumber, factors, groupedFactors, error,
          calculationHistory, darkMode, lastOp>>

(***************************************************************************)
(* Bounds of the model.                                                    *)
(***************************************************************************)
MaxN == 10000      \* largest valid argument given to primeFactorize directly
MaxNeg == 6        \* arguments below 2 range over -MaxNeg .. 1
MaxAbove == 3      \* arguments above the safe bound: 2^53, 2^53 + 2, ...
MaxSeqLen == 4     \* longest arbitrary sequence given to groupFactors directly
MaxHistory == 2    \* handleFactorize is not taken once the history is this long

(***************************************************************************)
(* Numbers.                                                                *)
(***************************************************************************)
NULL == [null |-> TRUE]

NaN == [nan |-> TRUE]

LIMB == 2^27

Num(h, l) == [hi |-> h, lo |-> l]

\* The number with integer value v, |v| < LIMB.
FromInt(v) == IF v >= 0 THEN Num(0, v) ELSE Num(-1, LIMB + v)

\* The integer value of a number; exact while the value has a single limb.
ToInt(num) == num.hi * LIMB + num.lo

\* Number.MAX_SAFE_INTEGER = 2^53 - 1 = (2^26 - 1) * 2^27 + (2^27 - 1).
MAX_SAFE_INTEGER == Num(2^26 - 1, LIMB - 1)

isNaN(num) == num = NaN

\* a < b on numbers: false when either side is NaN.
NumLt(a, b) ==
    /\ ~isNaN(a)
    /\ ~isNaN(b)
    /\ \/ a.hi < b.hi
       \/ a.hi = b.hi /\ a.lo < b.lo

\* a > b on numbers.
NumGt(a, b) == NumLt(b, a)

(***************************************************************************)
(* primeFactorize (App.tsx 6-34).                                          *)
(***************************************************************************)

\* Mutant of BelowMinimum: only 0 and 1 are rejected, negatives pass.
BelowMinimum_OnlyZeroOne(num) == num = FromInt(0) \/ num = FromInt(1)

\* Line 8: num < 2.
BelowMinimum(num) == NumLt(num, FromInt(2))

\* Line 9: num > Number.MAX_SAFE_INTEGER.
AboveMaximum(num) == NumGt(num, MAX_SAFE_INTEGER)

\* Mutant of LeSqrt: strict comparison, a square's root is never tried.
LeSqrt_Strict(i, n) == i * i < n

\* Line 21: i <= Math.sqrt(n).  Math.sqrt is correctly rounded and exact on
\* perfect squares; for n < 2^52 the rounded root is >= i exactly when
\* i * i <= n.  A negative n has root NaN and the comparison is false, as
\* i * i <= n is.
LeSqrt(i, n) == i * i <= n

\* Lines 15-18 and 22-25: while (n % i === 0) { factors.push(i); n = n / i }.
\* Returns <<n, factors>> after the loop.
RECURSIVE DivideOut(_, _, _)
DivideOut(n, i, fs) ==
    IF n % i = 0
    THEN DivideOut(n \div i, i, Append(fs, i))
    ELSE <<n, fs>>

\* Lines 21-26: for (let i = 3; i <= Math.sqrt(n); i += 2) { while ... }.
RECURSIVE OddTrial(_, _, _)
OddTrial(n, i, fs) ==
    IF LeSqrt(i, n)
    THEN LET r == DivideOut(n, i, fs)
         IN  OddTrial(r[1], i + 2, r[2])
    ELSE <<n, fs>>

\* Mutant of PushRemainder: the remaining value is put first (unshift).
PushRemainder_Unshift(r) == IF r[1] > 1 THEN <<r[1]>> \o r[2] ELSE r[2]

\* Lines 29-31: if (n > 1) factors.push(n).
PushRemainder(r) == IF r[1] > 1 THEN Append(r[2], r[1]) ELSE r[2]

primeFactorize(num) ==
    IF BelowMinimum(num) THEN <<>>
    ELSE IF AboveMaximum(num) THEN <<>>
    ELSE IF isNaN(num) THEN <<>>   \* every test on NaN is false: nothing is pushed
    ELSE LET twos == DivideOut(ToInt(num), 2, <<>>)
         IN  PushRemainder(OddTrial(twos[1], 3, twos[2]))

(***************************************************************************)
(* groupFactors (App.tsx 37-57).                                           *)
(***************************************************************************)

\* Mutant of GroupLoop: the group still open when the loop ends is dropped
\* (line 55 missing).
RECURSIVE GroupLoop_NoFinalPush(_, _, _, _, _)
GroupLoop_NoFinalPush(fs, k, currentPrime, exponent, grouped) ==
    IF k <= Len(fs)
    THEN IF fs[k] = currentPrime
         THEN GroupLoop_NoFinalPush(fs, k + 1, currentPrime, exponent + 1, grouped)
         ELSE GroupLoop_NoFinalPush(fs, k + 1, fs[k], 1,
                  Append(grouped, [prime |-> currentPrime, exponent |-> exponent]))
    ELSE grouped

\* Mutant of GroupLoop: the exponent is not reset when a new prime starts
\* (line 51 missing).
RECURSIVE GroupLoop_NoExponentReset(_, _, _, _, _)
GroupLoop_NoExponentReset(fs, k, currentPrime, exponent, grouped) ==
    IF k <= Len(fs)
    THEN IF fs[k] = currentPrime
         THEN GroupLoop_NoExponentReset(fs, k + 1, currentPrime, exponent + 1, grouped)
         ELSE GroupLoop_NoExponentReset(fs, k + 1, fs[k], exponent,
                  Append(grouped, [prime |-> currentPrime, exponent |-> exponent]))
    ELSE Append(grouped, [prime |-> currentPrime, exponent |-> exponent])

\* Lines 45-55: the loop over factors[1 ..] (k is the 1-based position of
\* factors[i]) and the push of the last group after it.
RECURSIVE GroupLoop(_, _, _, _, _)
GroupLoop(fs, k, currentPrime, exponent, grouped) ==
    IF k <= Len(fs)
    THEN IF fs[k] = currentPrime
         THEN GroupLoop(fs, k + 1, currentPrime, exponent + 1, grouped)
         ELSE GroupLoop(fs, k + 1, fs[k], 1,
                  Append(grouped, [prime |-> currentPrime, exponent |-> exponent]))
    ELSE Append(grouped, [prime |-> currentPrime, exponent |-> exponent])

groupFactors(fs) ==
    IF Len(fs) = 0 THEN <<>>
    ELSE GroupLoop(fs, 2, fs[1], 1, <<>>)

(***************************************************************************)
(* Strings: number to string, parseInt, map and join.                      *)
(***************************************************************************)
DigitChars == <<"0", "1", "2", "3", "4", "5", "6", "7", "8", "9">>

IsDigit(c) == \E d \in 1..10 : DigitChars[d] = c

DigitValue(c) == (CHOOSE d \in 1..10 : DigitChars[d] = c) - 1

\* Decimal digits of a non-negative integer, most significant first.
RECURSIVE DecimalString(_)
DecimalString(n) ==
    IF n < 10 THEN <<DigitChars[n + 1]>>
    ELSE DecimalString(n \div 10) \o <<DigitChars[(n % 10) + 1]>>

\* `${v}` of an integer-valued number (lines 120); Number::toString, radix 10.
TemplateString(v) ==
    IF v < 0 THEN <<"-">> \o DecimalString(-v) ELSE DecimalString(v)

\* num.toString() (line 133) of a single-limb number.
NumberToString(num) == TemplateString(ToInt(num))

\* acc * 10 + d on limbs.
MulAdd10(acc, d) ==
    LET t == acc.lo * 10 + d
    IN  Num((acc.hi * 10) + (t \div LIMB), t % LIMB)

\* -v on limbs.
Negate(v) == IF v.lo = 0 THEN Num(-v.hi, 0) ELSE Num(-v.hi - 1, LIMB - v.lo)

\* The Number value of a mathematical integer 0 <= v < 2^54: exact up to
\* 2^53; above, the nearest even integer, a tie going to the multiple of 4
\* (round half to even on a 53-bit significand).
RoundToDouble(v) ==
    IF ~NumGt(v, MAX_SAFE_INTEGER) \/ v.lo % 2 = 0 THEN v
    ELSE IF (v.lo - 1) % 4 = 0 THEN Num(v.hi, v.lo - 1)
    ELSE IF v.lo + 1 = LIMB THEN Num(v.hi + 1, 0)
    ELSE Num(v.hi, v.lo + 1)

\* Position of the first character of s at or after k that is not a space.
RECURSIVE SkipWhiteSpace(_, _)
SkipWhiteSpace(s, k) ==
    IF k <= Len(s) /\ s[k] = " " THEN SkipWhiteSpace(s, k + 1) ELSE k

\* The value of the longest run of decimal digits of s starting at k.
RECURSIVE ParseDigits(_, _, _)
ParseDigits(s, k, acc) ==
    IF k <= Len(s) /\ IsDigit(s[k])
    THEN ParseDigits(s, k + 1, MulAdd10(acc, DigitValue(s[k])))
    ELSE acc

\* parseInt(s, 10) (line 87): leading white space is skipped, one sign is
\* read, then the longest prefix of decimal digits; NaN when there is none.
parseInt(s) ==
    LET b == SkipWhiteSpace(s, 1)
        signed == b <= Len(s) /\ s[b] \in {"+", "-"}
        negative == signed /\ s[b] = "-"
        d == IF signed THEN b + 1 ELSE b
    IN  IF ~(d <= Len(s) /\ IsDigit(s[d])) THEN NaN
        ELSE LET v == RoundToDouble(ParseDigits(s, d, Num(0, 0)))
             IN  IF negative THEN Negate(v) ELSE v

\* The separator given to join (line 121).
Separator == <<" ", "×", " ">>

\* Mutant of RenderGroup: the exponent is always written.
RenderGroup_AlwaysExponent(g) ==
    TemplateString(g.prime) \o <<"^">> \o TemplateString(g.exponent)

\* Line 120: exponent > 1 ? `${prime}^${exponent}` : `${prime}`.
RenderGroup(g) ==
    IF g.exponent > 1
    THEN TemplateString(g.prime) \o <<"^">> \o TemplateString(g.exponent)
    ELSE TemplateString(g.prime)

\* Array.prototype.join: the elements with sep between each two of them.
RECURSIVE Join(_, _)
Join(parts, sep) ==
    IF Len(parts) = 0 THEN <<>>
    ELSE IF Len(parts) = 1 THEN parts[1]
    ELSE parts[1] \o sep \o Join(Tail(parts), sep)

\* Lines 119-121: groupedResult.map(...).join(' × ').
factorizationString(grouped) ==
    Join([k \in 1..Len(grouped) |-> RenderGroup(grouped[k])], Separator)

(***************************************************************************)
(* The App component (App.tsx 60-145): signals, store and handlers.        *)
(***************************************************************************)

\* setError's argument: a message (a string) kept apart from null.
ErrorMessage(text) == [message |-> text]

\* The three messages of handleFactorize (lines 91, 98, 105), named by what
\* they say.
NotANumberMessage == "enter a valid number"

BelowMinimumMessage == "enter an integer of 2 or more"

TooLargeMessage == "the number is too large"

\* What the user can leave in the <input type="number"> (line 174): the
\* empty string or the text of a number.  The values are "", 12, 17, 100,
\* 1, 0, -5, 2.9, 1e3, 2^53 and 2^53 + 1 (which parseInt rounds to 2^53).
InputStrings ==
    { <<>>,
      <<"1", "2">>, <<"1", "7">>, <<"1", "0", "0">>,
      <<"1">>, <<"0">>, <<"-", "5">>, <<"2", ".", "9">>, <<"1", "e", "3">>,
      <<"9", "0", "0", "7", "1", "9", "9", "2", "5", "4", "7", "4", "0", "9", "9", "2">>,
      <<"9", "0", "0", "7", "1", "9", "9", "2", "5", "4", "7", "4", "0", "9", "9", "3">> }

\* Lines 61-69: the state after construction.  darkMode starts as the
\* system's colour scheme.
Init ==
    /\ inputValue = <<>>
    /\ currentNumber = NULL
    /\ factors = <<>>
    /\ groupedFactors = <<>>
    /\ error = NULL
    /\ calculationHistory = <<>>
    /\ darkMode \in BOOLEAN
    /\ lastOp = <<"init", -1>>

\* Line 174: onInput sets inputValue to the field's text.
SetInputValue(text) ==
    /\ inputValue' = text
    /\ lastOp' = <<"setInputValue", -1>>
    /\ UNCHANGED <<currentNumber, factors, groupedFactors, error,
                   calculationHistory, darkMode>>

\* Lines 81-83.
toggleDarkMode ==
    /\ darkMode' = ~darkMode
    /\ lastOp' = <<"toggleDarkMode", -1>>
    /\ UNCHANGED <<inputValue, currentNumber, factors, groupedFactors, error,
                   calculationHistory>>

\* Lines 72-78: the media query's change handler, setDarkMode(e.matches).
colorSchemeChange(matches) ==
    /\ darkMode' = matches
    /\ lastOp' = <<"colorSchemeChange", -1>>
    /\ UNCHANGED <<inputValue, currentNumber, factors, groupedFactors, error,
                   calculationHistory>>

\* Lines 90-109: the three early returns of handleFactorize.
Rejected(num, text) ==
    /\ error' = ErrorMessage(text)
    /\ factors' = <<>>
    /\ groupedFactors' = <<>>
    /\ UNCHANGED calculationHistory

\* Mutant of Accepted: a number already in the history is not added again.
Accepted_Deduplicating(num) ==
    /\ error' = NULL
    /\ factors' = primeFactorize(num)
    /\ groupedFactors' = groupFactors(factors')
    /\ calculationHistory' =
           IF \E k \in DOMAIN calculationHistory : calculationHistory[k].number = num
           THEN calculationHistory
           ELSE Append(calculationHistory,
                       [number |-> num,
                        factorization |-> factorizationString(groupedFactors')])

\* Lines 111-123: the computation and the record added to the history.
Accepted(num) ==
    /\ error' = NULL
    /\ factors' = primeFactorize(num)
    /\ groupedFactors' = groupFactors(factors')
    /\ calculationHistory' =
           Append(calculationHistory,
                  [number |-> num,
                   factorization |-> factorizationString(groupedFactors')])

\* Whether handleFactorize takes none of its early returns on num.
PassesValidation(num) ==
    /\ ~isNaN(num)
    /\ ~NumLt(num, FromInt(2))
    /\ ~NumGt(num, MAX_SAFE_INTEGER)

\* Mutant of handleFactorize: the too-small return forgets to clear factors.
handleFactorize_KeepsFactors ==
    LET num == parseInt(inputValue)
    IN  /\ PassesValidation(num) => Len(calculationHistory) < MaxHistory
        /\ currentNumber' = num
        /\ IF isNaN(num) THEN Rejected(num, NotANumberMessage)
           ELSE IF NumLt(num, FromInt(2))
           THEN /\ error' = ErrorMessage(BelowMinimumMessage)
                /\ UNCHANGED <<factors, groupedFactors, calculationHistory>>
           ELSE IF NumGt(num, MAX_SAFE_INTEGER) THEN Rejected(num, TooLargeMessage)
           ELSE Accepted(num)
        /\ lastOp' = <<"handleFactorize", -1>>
        /\ UNCHANGED <<inputValue, darkMode>>

\* Lines 86-124.  The model stops adding records at MaxHistory.
handleFactorize ==
    LET num == parseInt(inputValue)
    IN  /\ PassesValidation(num) => Len(calculationHistory) < MaxHistory
        /\ currentNumber' = num
        /\ IF isNaN(num) THEN Rejected(num, NotANumberMessage)
           ELSE IF NumLt(num, FromInt(2)) THEN Rejected(num, BelowMinimumMessage)
           ELSE IF NumGt(num, MAX_SAFE_INTEGER) THEN Rejected(num, TooLargeMessage)
           ELSE Accepted(num)
        /\ lastOp' = <<"handleFactorize", -1>>
        /\ UNCHANGED <<inputValue, darkMode>>

\* Mutant of FilterOut: index is taken as a 1-based position.
FilterOut_OneBased(prev, index) ==
    IF index \in 1..Len(prev)
    THEN SubSeq(prev, 1, index - 1) \o SubSeq(prev, index + 1, Len(prev))
    ELSE prev

\* Line 128: prev.filter((_, i) => i !== index); i is 0-based, position k
\* of the sequence holds prev[k - 1].
RECURSIVE FilterOut(_, _)
FilterOut(prev, index) ==
    IF Len(prev) = 0 THEN <<>>
    ELSE LET k == Len(prev)
             front == FilterOut(SubSeq(prev, 1, k - 1), index)
         IN  IF k - 1 # index THEN Append(front, prev[k]) ELSE front

\* Lines 127-129.  The button of the record at position index (line 236).
removeFromHistory(index) ==
    /\ calculationHistory' = FilterOut(calculationHistory, index)
    /\ lastOp' = <<"removeFromHistory", index>>
    /\ UNCHANGED <<inputValue, currentNumber, factors, groupedFactors, error,
                   darkMode>>

\* Lines 132-139.
recalculate(num) ==
    /\ inputValue' = NumberToString(num)
    /\ currentNumber' = num
    /\ factors' = primeFactorize(num)
    /\ groupedFactors' = groupFactors(factors')
    /\ error' = NULL
    /\ lastOp' = <<"recalculate", -1>>
    /\ UNCHANGED <<calculationHistory, darkMode>>

\* Mutant of clearInput: the history is cleared with the input.
clearInput_ClearsHistory ==
    /\ inputValue' = <<>>
    /\ error' = NULL
    /\ calculationHistory' = <<>>
    /\ lastOp' = <<"clearInput", -1>>
    /\ UNCHANGED <<currentNumber, factors, groupedFactors, darkMode>>

\* Lines 142-145.
clearInput ==
    /\ inputValue' = <<>>
    /\ error' = NULL
    /\ lastOp' = <<"clearInput", -1>>
    /\ UNCHANGED <<currentNumber, factors, groupedFactors, calculationHistory,
                   darkMode>>

\* The handlers the rendered page offers: the history's buttons exist for
\* the records of the history only (lines 226-244).
Next ==
    \/ \E text \in InputStrings : SetInputValue(text)
    \/ handleFactorize
    \/ \E k \in DOMAIN calculationHistory : removeFromHistory(k - 1)
    \/ \E k \in DOMAIN calculationHistory : recalculate(calculationHistory[k].number)
    \/ clearInput
    \/ toggleDarkMode
    \/ \E matches \in BOOLEAN : colorSchemeChange(matches)

Spec == Init /\ [][Next]_vars

(***************************************************************************)
(* The pure functions on their own: an argument is drawn, then             *)
(* primeFactorize, groupFactors and the string of lines 119-123 are        *)
(* applied to it in the order handleFactorize applies them.  groupFactors  *)
(* is also applied to sequences that no factorization produces.            *)
(***************************************************************************)

\* Arguments of primeFactorize: -MaxNeg .. MaxN, and the even integers
\* 2^53, 2^53 + 2, ... (the numbers above the safe bound are all even).
FnArguments ==
    {FromInt(v) : v \in -MaxNeg..MaxN}
        \cup {Num(2^26, 2 * k) : k \in 0..MaxAbove}

\* All sequences over S of length at most n.
RECURSIVE SeqsUpTo(_, _)
SeqsUpTo(S, n) ==
    IF n = 0 THEN {<<>>}
    ELSE LET shorter == SeqsUpTo(S, n - 1)
         IN  shorter \cup {Append(q, x) : q \in shorter, x \in S}

\* Arguments of groupFactors: sorted or not.
FnSequences == SeqsUpTo({2, 3, 5}, MaxSeqLen)

InitFn ==
    /\ inputValue = <<>>
    /\ groupedFactors = <<>>
    /\ error = NULL
    /\ calculationHistory = <<>>
    /\ darkMode = FALSE
    /\ \/ /\ currentNumber \in FnArguments
          /\ factors = <<>>
          /\ lastOp = <<"argument", -1>>
       \/ /\ currentNumber = NULL
          /\ factors \in FnSequences
          /\ lastOp = <<"sequence", -1>>

CallPrimeFactorize ==
    /\ lastOp[1] = "argument"
    /\ factors' = primeFactorize(currentNumber)
    /\ lastOp' = <<"primeFactorize", -1>>
    /\ UNCHANGED <<inputValue, currentNumber, groupedFactors, error,
                   calculationHistory, darkMode>>

CallGroupFactors ==
    /\ lastOp[1] \in {"primeFactorize", "sequence"}
    /\ groupedFactors' = groupFactors(factors)
    /\ lastOp' = <<"groupFactors", -1>>
    /\ UNCHANGED <<inputValue, currentNumber, factors, error,
                   calculationHistory, darkMode>>

\* Lines 119-123 on the grouped result of a number that passed validation.
CallFactorizationString ==
    /\ lastOp[1] = "groupFactors"
    /\ currentNumber # NULL
    /\ PassesValidation(currentNumber)
    /\ calculationHistory' =
           Append(calculationHistory,
                  [number |-> currentNumber,
                   factorization |-> factorizationString(groupedFactors)])
    /\ lastOp' = <<"factorizationString", -1>>
    /\ UNCHANGED <<inputValue, currentNumber, factors, groupedFactors, error,
                   darkMode>>

NextFn ==
    \/ CallPrimeFactorize
    \/ CallGroupFactors
    \/ CallFactorizationString

FnSpec == InitFn /\ [][NextFn]_vars

(***************************************************************************)
(* Vocabulary of the properties.                                           *)
(***************************************************************************)
RECURSIVE Product(_)
Product(q) == IF q = <<>> THEN 1 ELSE Head(q) * Product(Tail(q))

IsPrime(p) == p > 1 /\ \A d \in 2..(p - 1) : p % d # 0

Occurrences(x, q) == Cardinality({k \in DOMAIN q : q[k] = x})

\* x repeated n times.
Repeat(x, n) == [k \in 1..n |-> x]

\* Each prime repeated exponent times, the groups concatenated in order.
RECURSIVE Expand(_)
Expand(grouped) ==
    IF grouped = <<>> THEN <<>>
    ELSE Repeat(Head(grouped).prime, Head(grouped).exponent) \o Expand(Tail(grouped))

Group(p, e) == [prime |-> p, exponent |-> e]

\* The arguments of the valid domain and those outside it.
ValidArguments == {FromInt(v) : v \in 2..MaxN}

InvalidArguments ==
    {FromInt(v) : v \in -MaxNeg..1} \cup {Num(2^26, 2 * k) : k \in 0..MaxAbove}

\* primeFactorize has returned for the argument in currentNumber.
Factorized == lastOp[1] = "primeFactorize"

\* C1: for every n in 2 .. MaxN (MaxN = 10000), primeFactorize(n) is not
\* empty, its elements multiply to n and each of them is prime; 12, 17 and
\* 100 give [2,2,3], [17] and [2,2,5,5].
C1_ProductAndPrimes ==
    (Factorized /\ currentNumber \in ValidArguments) =>
        /\ factors # <<>>
        /\ Product(factors) = ToInt(currentNumber)
        /\ \A k \in DOMAIN factors : IsPrime(factors[k])
        /\ currentNumber = FromInt(12) => factors = <<2, 2, 3>>
        /\ currentNumber = FromInt(17) => factors = <<17>>
        /\ currentNumber = FromInt(100) => factors = <<2, 2, 5, 5>>

C1_Witness ==
    /\ Factorized
    /\ currentNumber = FromInt(9409)
    /\ factors = <<97, 97>>

\* C2: for every n below 2 (1, 0, negative) and every n above the safe
\* bound (2^53 included), primeFactorize(n) returns the empty sequence, the
\* same value in both cases.
C2_InvalidGivesEmpty ==
    (Factorized /\ currentNumber \in InvalidArguments) => factors = <<>>

C2_Witness ==
    /\ Factorized
    /\ currentNumber = Num(2^26, 0)
    /\ NumGt(currentNumber, MAX_SAFE_INTEGER)
    /\ factors = <<>>

\* C3: for every valid n, the sequence primeFactorize(n) returns is in
\* non-decreasing order, the remaining value pushed last included.
C3_Ascending ==
    (Factorized /\ currentNumber \in ValidArguments) =>
        \A k \in 1..(Len(factors) - 1) : factors[k] <= factors[k + 1]

C3_Witness ==
    /\ Factorized
    /\ currentNumber = FromInt(9998)
    /\ factors = <<2, 4999>>

\* groupFactors has returned for the sequence in factors.
Grouped == lastOp[1] = "groupFactors"

\* C4: for every sequence f, a factorization or not, expanding
\* groupFactors(f) gives f back; the empty sequence gives the empty
\* sequence; every group has an exponent of at least 1.
C4_ExpandReproduces ==
    Grouped =>
        /\ Expand(groupedFactors) = factors
        /\ factors = <<>> => groupedFactors = <<>>
        /\ \A k \in DOMAIN groupedFactors : groupedFactors[k].exponent >= 1

C4_Witness ==
    /\ Grouped
    /\ currentNumber = NULL
    /\ factors = <<2, 3, 3, 2>>
    /\ groupedFactors = <<Group(2, 1), Group(3, 2), Group(2, 1)>>

\* C5: for every valid n, each pair of groupFactors(primeFactorize(n))
\* carries the total multiplicity of its prime in primeFactorize(n), every
\* prime of the factorization has its pair, and the primes of the pairs are
\* strictly ascending; 12, 100 and 17 give [(2,2),(3,1)], [(2,2),(5,2)] and
\* [(17,1)].
C5_ExponentIsMultiplicity ==
    (Grouped /\ currentNumber \in ValidArguments) =>
        /\ \A k \in DOMAIN groupedFactors :
               groupedFactors[k].exponent =
                   Occurrences(groupedFactors[k].prime, factors)
        /\ \A j \in DOMAIN factors :
               \E k \in DOMAIN groupedFactors : groupedFactors[k].prime = factors[j]
        /\ \A k \in 1..(Len(groupedFactors) - 1) :
               groupedFactors[k].prime < groupedFactors[k + 1].prime
        /\ currentNumber = FromInt(12) =>
               groupedFactors = <<Group(2, 2), Group(3, 1)>>
        /\ currentNumber = FromInt(100) =>
               groupedFactors = <<Group(2, 2), Group(5, 2)>>
        /\ currentNumber = FromInt(17) => groupedFactors = <<Group(17, 1)>>

C5_Witness ==
    /\ Grouped
    /\ currentNumber = FromInt(360)
    /\ factors = <<2, 2, 2, 3, 3, 5>>
    /\ groupedFactors = <<Group(2, 3), Group(3, 2), Group(5, 1)>>

\* The pieces of s between the occurrences of Separator, read from
\* position k on; cur is the piece being read.
RECURSIVE SplitAtSeparator(_, _, _, _)
SplitAtSeparator(s, k, cur, pieces) ==
    IF k > Len(s) THEN Append(pieces, cur)
    ELSE IF k + 2 <= Len(s) /\ SubSeq(s, k, k + 2) = <<" ", "×", " ">>
    THEN SplitAtSeparator(s, k + 3, <<>>, Append(pieces, cur))
    ELSE SplitAtSeparator(s, k + 1, Append(cur, s[k]), pieces)

\* t is the decimal numeral of v: digits only, no leading zero, value v.
RECURSIVE NumeralValue(_)
NumeralValue(t) ==
    IF t = <<>> THEN 0
    ELSE 10 * NumeralValue(SubSeq(t, 1, Len(t) - 1))
             + (CHOOSE d \in 0..9 : DigitChars[d + 1] = t[Len(t)])

IsNumeralOf(t, v) ==
    /\ Len(t) >= 1
    /\ \A k \in DOMAIN t : \E d \in 1..10 : DigitChars[d] = t[k]
    /\ Len(t) > 1 => t[1] # "0"
    /\ NumeralValue(t) = v

\* piece shows the group g: the prime alone when the exponent is 1,
\* otherwise the prime, a caret and the exponent.
ShowsGroup(piece, g) ==
    IF g.exponent = 1 THEN IsNumeralOf(piece, g.prime)
    ELSE \E c \in 2..(Len(piece) - 1) :
             /\ piece[c] = "^"
             /\ IsNumeralOf(SubSeq(piece, 1, c - 1), g.prime)
             /\ IsNumeralOf(SubSeq(piece, c + 1, Len(piece)), g.exponent)

\* The string of lines 119-121 has been built and recorded.
Formatted == lastOp[1] = "factorizationString"

\* C6: the factorization string of a grouped sequence consists of one piece
\* per group, in the order of the groups, the pieces separated by " × "
\* and nothing before the first or after the last; a piece is the prime when
\* the exponent is 1 and prime^exponent otherwise; 12, 17 and 100 give
\* "2^2 × 3", "17" and "2^2 × 5^2".
C6_FactorizationString ==
    Formatted =>
        LET str == calculationHistory[Len(calculationHistory)].factorization
            pieces == SplitAtSeparator(str, 1, <<>>, <<>>)
        IN  /\ Len(pieces) = Len(groupedFactors)
            /\ \A k \in DOMAIN pieces : ShowsGroup(pieces[k], groupedFactors[k])
            /\ currentNumber = FromInt(12) =>
                   str = <<"2", "^", "2", " ", "×", " ", "3">>
            /\ currentNumber = FromInt(17) => str = <<"1", "7">>
            /\ currentNumber = FromInt(100) =>
                   str = <<"2", "^", "2", " ", "×", " ", "5", "^", "2">>

C6_Witness ==
    /\ Formatted
    /\ groupedFactors = <<Group(2, 10), Group(3, 1)>>
    /\ calculationHistory[1].factorization =
           <<"2", "^", "1", "0", " ", "×", " ", "3">>

(***************************************************************************)
(* Properties of the component's handlers.                                 *)
(***************************************************************************)
Record(n, str) == [number |-> FromInt(n), factorization |-> str]

Record12 == Record(12, <<"2", "^", "2", " ", "×", " ", "3">>)

Record17 == Record(17, <<"1", "7">>)

\* The step is a call of the handler named op.
StepOf(op) == lastOp'[1] = op

\* after is before without the record at 0-based position index.
DeletedAt(before, after, index) ==
    /\ Len(after) = Len(before) - 1
    /\ \A k \in 1..index : after[k] = before[k]
    /\ \A k \in (index + 2)..Len(before) : after[k - 1] = before[k]

\* C7, a step of removeFromHistory(index) on a history of length L: for
\* 0 <= index < L the length becomes L - 1, the records before index stay
\* and those after it move down by one; otherwise the history is unchanged.
\* Removing position 0 of [{12, "2^2 × 3"}, {17, "17"}] leaves [{17, "17"}].
RemoveStep ==
    StepOf("removeFromHistory") =>
        LET index == lastOp'[2]
        IN  /\ IF 0 <= index /\ index < Len(calculationHistory)
               THEN DeletedAt(calculationHistory, calculationHistory', index)
               ELSE calculationHistory' = calculationHistory
            /\ (calculationHistory = <<Record12, Record17>> /\ index = 0) =>
                   calculationHistory' = <<Record17>>

\* C7, an index outside the history (removeFromHistory's filter on any
\* history the component reaches): nothing is removed.
RemoveOutOfRange ==
    \A index \in {-1, Len(calculationHistory), Len(calculationHistory) + 1} :
        FilterOut(calculationHistory, index) = calculationHistory

AppendStep ==
    (StepOf("handleFactorize") /\ PassesValidation(parseInt(inputValue))) =>
        LET L == Len(calculationHistory)
        IN  /\ Len(calculationHistory') = L + 1
            /\ \A k \in 1..L : calculationHistory'[k] = calculationHistory[k]
            /\ calculationHistory'[L + 1].number = parseInt(inputValue)
            /\ calculationHistory'[L + 1].number = currentNumber'
            /\ Expand(groupedFactors') = factors'
            /\ Product(factors') = ToInt(currentNumber')
            /\ LET str == calculationHistory'[L + 1].factorization
                   pieces == SplitAtSeparator(str, 1, <<>>, <<>>)
               IN  /\ Len(pieces) = Len(groupedFactors')
                   /\ \A k \in DOMAIN pieces :
                          ShowsGroup(pieces[k], groupedFactors'[k])

C8_AppendsOneRecord == [][AppendStep]_vars

C8_Witness ==
    /\ lastOp[1] = "handleFactorize"
    /\ error = NULL
    /\ calculationHistory = <<Record12, Record12>>

\* C9: the history changes only by a validated handleFactorize, which adds
\* one record at the end, or by removeFromHistory, which removes one; a
\* handleFactorize that sets an error, recalculate, clearInput, an edit of
\* the input and a change of theme leave it as it is; a record that stays
\* keeps its number and its factorization.
HistoryLifecycle ==
    LET before == calculationHistory
        after == calculationHistory'
    IN  /\ after # before =>
               \/ /\ StepOf("handleFactorize")
                  /\ PassesValidation(parseInt(inputValue))
                  /\ error' = NULL
                  /\ Len(after) = Len(before) + 1
                  /\ SubSeq(after, 1, Len(before)) = before
               \/ /\ StepOf("removeFromHistory")
                  /\ \E index \in 0..(Len(before) - 1) :
                         DeletedAt(before, after, index)
        /\ (StepOf("handleFactorize") /\ error' # NULL) => after = before
        /\ ( \/ StepOf("recalculate")
             \/ StepOf("clearInput")
             \/ StepOf("setInputValue")
             \/ StepOf("toggleDarkMode")
             \/ StepOf("colorSchemeChange") ) => after = before

C9_HistoryLifecycle == [][HistoryLifecycle]_vars

C9_Witness ==
    /\ lastOp[1] = "handleFactorize"
    /\ error = ErrorMessage(BelowMinimumMessage)
    /\ calculationHistory = <<Record17, Record12>>

\* Line 201: the condition under which the result panel is shown.
ResultPanelShown ==
    /\ currentNumber # NULL
    /\ Len(factors) > 0
    /\ error = NULL

\* C10: once currentNumber is not null, factors is
\* primeFactorize(currentNumber) and groupedFactors is
\* groupFactors(factors); when the result panel is shown the factors
\* multiply to the number shown; when an error message is present the
\* factors are empty.
C10_DisplayedResult ==
    /\ currentNumber # NULL =>
           /\ factors = primeFactorize(currentNumber)
           /\ groupedFactors = groupFactors(factors)
    /\ ResultPanelShown => Product(factors) = ToInt(currentNumber)
    /\ error # NULL => factors = <<>> /\ groupedFactors = <<>>

C10_Witness ==
    /\ lastOp[1] = "recalculate"
    /\ ResultPanelShown
    /\ currentNumber = FromInt(100)
    /\ factors = <<2, 2, 5, 5>>
    /\ inputValue = <<"1", "0", "0">>

=============================================================================
